---------------------------- MODULE Spec2Model ----------------------------
(***************************************************************************)
(* Model of the LipSick control panel (src/app.py): the Filename          *)
(* Versioner, the request orchestrator process_files and the preview      *)
(* helper visualize_reference_frames.                                      *)
(*                                                                         *)
(* A Python str is a sequence of one-character strings, so that splitext, *)
(* basename, join and the f-strings are computed character by character.  *)
(* An optional value is a sequence of length 0 (None) or 1 (the value).   *)
(* Numbers (reference indices, crop radius, exit codes) are Python ints.   *)
(***************************************************************************)
EXTENDS Integers, Sequences, FiniteSets, TLC

\* ------------------------------------------------------------------ bounds
NumSessions == 2
MaxCalls == 2
MaxIndex == 0
MaxVersion == 2
MaxFrame == 2

\* ------------------------------------------------------- values and strings
None == <<>>
Some(x) == <<x>>
IsNone(o) == o = <<>>
Val(o) == o[1]

EmptyStr == <<>>
Digits == <<"0", "1", "2", "3", "4", "5", "6", "7", "8", "9">>

\* str(n) of a non-negative int
RECURSIVE StrOfNat(_)
StrOfNat(n) ==
    IF n < 10 THEN <<Digits[n + 1]>>
    ELSE StrOfNat(n \div 10) \o <<Digits[(n % 10) + 1]>>

\* str(n) of an int
str(n) == IF n < 0 THEN <<"-">> \o StrOfNat(-n) ELSE StrOfNat(n)

\* p.rfind(c), 1-based; 0 when c does not occur
rfind(p, c) ==
    LET hits == {i \in 1..Len(p) : p[i] = c}
    IN IF hits = {} THEN 0 ELSE CHOOSE i \in hits : \A j \in hits : j <= i

\* os.path.splitext(p): <<root, ext>>; the extension starts at the last dot of
\* the last path component, leading dots of that component not counted
splitext(p) ==
    LET sepIndex == rfind(p, "/")
        dotIndex == rfind(p, ".")
    IN IF /\ dotIndex > sepIndex
          /\ \E k \in (sepIndex + 1)..(dotIndex - 1) : p[k] /= "."
       THEN <<SubSeq(p, 1, dotIndex - 1), SubSeq(p, dotIndex, Len(p))>>
       ELSE <<p, EmptyStr>>

\* os.path.basename(p)
basename(p) == SubSeq(p, rfind(p, "/") + 1, Len(p))

\* os.path.join(a, b)
join(a, b) ==
    IF b /= EmptyStr /\ b[1] = "/" THEN b
    ELSE IF a = EmptyStr \/ a[Len(a)] = "/" THEN a \o b
    ELSE a \o <<"/">> \o b

\* f"{base}({counter}){ext}"
VersionedName(base, counter, ext) ==
    base \o <<"(">> \o str(counter) \o <<")">> \o ext

\* the while loop of get_versioned_filename, entered with the current
\* versioned_filepath and counter; exists is the set of paths on disk
RECURSIVE VersionLoop(_, _, _, _, _)
VersionLoop(versioned_filepath, counter, base, ext, exists) ==
    IF versioned_filepath \in exists
    THEN VersionLoop(VersionedName(base, counter, ext), counter + 1,
                     base, ext, exists)
    ELSE versioned_filepath

\* the loop entered with counter = 0
get_versioned_filename_from0(filepath, exists) ==
    LET base == splitext(filepath)[1]
        ext == splitext(filepath)[2]
    IN VersionLoop(filepath, 0, base, ext, exists)

get_versioned_filename(filepath, exists) ==
    LET base == splitext(filepath)[1]
        ext == splitext(filepath)[2]
    IN VersionLoop(filepath, 1, base, ext, exists)


\* ------------------------------------------------------------------- state
VARIABLES
    files,              \* paths that exist on disk (os.path.exists)
    pc,                 \* per session: "Idle" or "Running" (inside process_files)
    proc,               \* per session: the inference process, "none"/"running"/"exited"
    args,               \* per session: the arguments of the current/last call
    ref_indices,        \* per session: local ref_indices after line 32
    cmd,                \* per session: the command line handed to subprocess.run
    output_video_path,  \* per session: local output_video_path after line 46
    returncode,         \* per session: exit code of the inference process
    result,             \* per session: the returned pair, routed to
                        \*   <<status_text, output_video>> by process_btn.click
    launches,           \* per session: subprocess.run invocations of the current call
    runs,               \* output paths assigned to the launched runs, in order
    ncalls,             \* process_files calls made so far
    vf_filepath,        \* Filename Versioner: the candidate path under test
    vf_returned,        \* Filename Versioner: results since the directory last changed
    viz_pc,             \* visualize_reference_frames: "Idle" or "Loop"
    viz_args,           \* visualize_reference_frames: the five index slots
    viz_i,              \* visualize_reference_frames: position of the for loop
    frames,             \* visualize_reference_frames: local frames
    viz_log,            \* collaborator calls made by the current visualize call
    ref_frame_files,    \* reference-frame artifacts on disk: path -> image
    viz_result          \* the list returned to the gallery

procVars == <<files, pc, proc, args, ref_indices, cmd, output_video_path,
              returncode, result, launches, runs, ncalls>>
vfVars == <<vf_filepath, vf_returned>>
vizVars == <<viz_pc, viz_args, viz_i, frames, viz_log, ref_frame_files, viz_result>>
vars == <<procVars, vfVars, vizVars>>

Sessions == 1..NumSessions

\* --------------------------------------------------------- process_files
pretrained_model_path == <<".", "/", "a", "s", "s", "e", "r", "t", "s", "/", "p", "r", "e", "t", "r", "a", "i", "n", "e", "d", "_", "l", "i", "p", "s", "i", "c", "k", ".", "p", "t", "h">>
deepspeech_model_path == <<".", "/", "a", "s", "s", "e", "r", "t", "s", "/", "o", "u", "t", "p", "u", "t", "_", "g", "r", "a", "p", "h", ".", "p", "b">>
res_video_dir == <<".", "/", "a", "s", "s", "e", "r", "t", "s", "/", "i", "n", "f", "e", "r", "e", "n", "c", "e", "_", "r", "e", "s", "u", "l", "t">>

AudioRequiredMsg == <<"E", "r", "r", "o", "r", ":", " ", "A", "u", "d", "i", "o", " ", "f", "i", "l", "e", " ", "i", "s", " ", "r", "e", "q", "u", "i", "r", "e", "d", ".">>
ProcessingFailedMsg == <<"A", "n", " ", "e", "r", "r", "o", "r", " ", "o", "c", "c", "u", "r", "r", "e", "d", " ", "d", "u", "r", "i", "n", "g", " ", "p", "r", "o", "c", "e", "s", "s", "i", "n", "g", ".", " ", "P", "l", "e", "a", "s", "e", " ", "c", "h", "e", "c", "k", " ", "t", "h", "e", " ", "c", "o", "n", "s", "o", "l", "e", " ", "l", "o", "g", ".">>

\* [index for index in [ref_index_1, ..., ref_index_5] if index is not None]
RECURSIVE CollectIndices(_)
CollectIndices(slots) ==
    IF slots = <<>> THEN <<>>
    ELSE IF IsNone(Head(slots)) THEN CollectIndices(Tail(slots))
    ELSE <<Val(Head(slots))>> \o CollectIndices(Tail(slots))

\* custom_crop_radius is None or custom_crop_radius == 0
NoCropRadius(custom_crop_radius) ==
    IsNone(custom_crop_radius) \/ Val(custom_crop_radius) = 0

\* the +5 decided by "custom_crop_radius is None" alone
OffsetIndicesNoneOnly(indices, custom_crop_radius) ==
    IF IsNone(custom_crop_radius)
    THEN [k \in 1..Len(indices) |-> indices[k] + 5]
    ELSE indices

\* lines 31-32: the indices after the conditional +5
OffsetIndices(indices, custom_crop_radius) ==
    IF NoCropRadius(custom_crop_radius)
    THEN [k \in 1..Len(indices) |-> indices[k] + 5]
    ELSE indices

\* ','.join(map(str, indices))
RECURSIVE JoinComma(_)
JoinComma(indices) ==
    IF indices = <<>> THEN EmptyStr
    ELSE IF Len(indices) = 1 THEN str(indices[1])
    ELSE str(indices[1]) \o <<",">> \o JoinComma(Tail(indices))

\* the join without the test on the length
RefIndicesStrAny(indices) == JoinComma(indices)

\* line 33
RefIndicesStr(indices) ==
    IF Len(indices) = 5 THEN JoinComma(indices) ELSE EmptyStr

\* not driving_audio
AudioMissing(driving_audio) ==
    IsNone(driving_audio) \/ Val(driving_audio) = EmptyStr

\* the two names taken the wrong way round
OutputVideoNameSwapped(source_video, auto_mask) ==
    LET base_name == splitext(basename(source_video))[1]
    IN IF auto_mask THEN base_name \o <<"_", "l", "i", "p", "s", "i", "c", "k", ".", "m", "p", "4">>
       ELSE <<"L", "i", "p", "S", "i", "c", "k", "_", "B", "l", "e", "n", "d", ".", "m", "p", "4">>

\* lines 43-44
OutputVideoName(source_video, auto_mask) ==
    LET base_name == splitext(basename(source_video))[1]
    IN IF ~auto_mask THEN base_name \o <<"_", "l", "i", "p", "s", "i", "c", "k", ".", "m", "p", "4">>
       ELSE <<"L", "i", "p", "S", "i", "c", "k", "_", "B", "l", "e", "n", "d", ".", "m", "p", "4">>

\* lines 45-46
OutputVideoPath(source_video, auto_mask, exists) ==
    get_versioned_filename(
        join(res_video_dir, OutputVideoName(source_video, auto_mask)), exists)

\* lines 58-59
CropRadiusArgs(custom_crop_radius) ==
    IF ~IsNone(custom_crop_radius)
    THEN <<<<"-", "-", "c", "u", "s", "t", "o", "m", "_", "c", "r", "o", "p", "_", "r", "a", "d", "i", "u", "s">>, str(Val(custom_crop_radius))>>
    ELSE <<>>

\* lines 48-65
BuildCmd(source_video, driving_audio, ref_indices_str, custom_crop_radius, activate_custom_frames, auto_mask) ==
    <<<<"p", "y", "t", "h", "o", "n">>, <<"i", "n", "f", "e", "r", "e", "n", "c", "e", ".", "p", "y">>,
      <<"-", "-", "s", "o", "u", "r", "c", "e", "_", "v", "i", "d", "e", "o", "_", "p", "a", "t", "h">>, source_video,
      <<"-", "-", "d", "r", "i", "v", "i", "n", "g", "_", "a", "u", "d", "i", "o", "_", "p", "a", "t", "h">>, driving_audio,
      <<"-", "-", "p", "r", "e", "t", "r", "a", "i", "n", "e", "d", "_", "l", "i", "p", "s", "i", "c", "k", "_", "p", "a", "t", "h">>, pretrained_model_path,
      <<"-", "-", "d", "e", "e", "p", "s", "p", "e", "e", "c", "h", "_", "m", "o", "d", "e", "l", "_", "p", "a", "t", "h">>, deepspeech_model_path,
      <<"-", "-", "r", "e", "s", "_", "v", "i", "d", "e", "o", "_", "d", "i", "r">>, res_video_dir,
      <<"-", "-", "c", "u", "s", "t", "o", "m", "_", "r", "e", "f", "e", "r", "e", "n", "c", "e", "_", "f", "r", "a", "m", "e", "s">>, ref_indices_str>>
    \o CropRadiusArgs(custom_crop_radius)
    \o (IF activate_custom_frames THEN <<<<"-", "-", "a", "c", "t", "i", "v", "a", "t", "e", "_", "c", "u", "s", "t", "o", "m", "_", "f", "r", "a", "m", "e", "s">>>> ELSE <<>>)
    \o (IF auto_mask THEN <<<<"-", "-", "a", "u", "t", "o", "_", "m", "a", "s", "k">>>> ELSE <<>>)

\* line 37: the pair returned when the audio is missing
MissingAudioReturn == <<EmptyStr, AudioRequiredMsg>>

\* the output path returned after a failure too
RunReturnPathOnFailure(code, path) ==
    IF code = 0 THEN <<EmptyStr, path>> ELSE <<ProcessingFailedMsg, path>>

\* lines 74 and 78: the pair returned once subprocess.run is over
RunReturn(code, path) ==
    IF code = 0 THEN <<EmptyStr, path>> ELSE <<ProcessingFailedMsg, EmptyStr>>

\* process_files, from its call to the return of line 37, the TypeError of
\* line 43 (source_video is None) or the launch of line 68
process_files(r, a) ==
    /\ pc[r] = "Idle"
    /\ ncalls' = ncalls + 1
    /\ args' = [args EXCEPT ![r] = a]
    /\ returncode' = [returncode EXCEPT ![r] = None]
    /\ LET indices == OffsetIndices(CollectIndices(a.ref_index), a.custom_crop_radius)
           ref_indices_str == RefIndicesStr(indices)
       IN /\ ref_indices' = [ref_indices EXCEPT ![r] = indices]
          /\ IF AudioMissing(a.driving_audio)
             THEN /\ result' = [result EXCEPT ![r] = Some(MissingAudioReturn)]
                  /\ cmd' = [cmd EXCEPT ![r] = <<>>]
                  /\ output_video_path' = [output_video_path EXCEPT ![r] = EmptyStr]
                  /\ launches' = [launches EXCEPT ![r] = 0]
                  /\ UNCHANGED <<pc, proc, runs>>
             ELSE IF IsNone(a.source_video)
             THEN \* os.path.basename(None) raises: the call ends with no result
                  /\ result' = [result EXCEPT ![r] = None]
                  /\ cmd' = [cmd EXCEPT ![r] = <<>>]
                  /\ output_video_path' = [output_video_path EXCEPT ![r] = EmptyStr]
                  /\ launches' = [launches EXCEPT ![r] = 0]
                  /\ UNCHANGED <<pc, proc, runs>>
             ELSE LET path == OutputVideoPath(Val(a.source_video), a.auto_mask, files)
                  IN /\ output_video_path' = [output_video_path EXCEPT ![r] = path]
                     /\ cmd' = [cmd EXCEPT ![r] =
                            BuildCmd(Val(a.source_video), Val(a.driving_audio),
                                     ref_indices_str, a.custom_crop_radius,
                                     a.activate_custom_frames, a.auto_mask)]
                     /\ result' = [result EXCEPT ![r] = None]
                     /\ launches' = [launches EXCEPT ![r] = 1]
                     /\ runs' = Append(runs, path)
                     /\ pc' = [pc EXCEPT ![r] = "Running"]
                     /\ proc' = [proc EXCEPT ![r] = "running"]
    /\ UNCHANGED <<files, vfVars, vizVars>>

\* what the inference process leaves on disk: the output video, on success
InferenceWrites(code, path) == IF code = 0 THEN {path} ELSE {}

\* the inference process of session r exits with the given code
inference_exit(r, code) ==
    /\ proc[r] = "running"
    /\ proc' = [proc EXCEPT ![r] = "exited"]
    /\ returncode' = [returncode EXCEPT ![r] = Some(code)]
    /\ files' = files \cup InferenceWrites(code, output_video_path[r])
    /\ UNCHANGED <<pc, args, ref_indices, cmd, output_video_path, result,
                   launches, runs, ncalls, vfVars, vizVars>>

\* a return that launches the process again after a failure
process_files_return_retry(r) ==
    /\ pc[r] = "Running"
    /\ proc[r] = "exited"
    /\ IF Val(returncode[r]) = 0
       THEN /\ result' = [result EXCEPT ![r] =
                    Some(<<EmptyStr, output_video_path[r]>>)]
            /\ pc' = [pc EXCEPT ![r] = "Idle"]
            /\ proc' = [proc EXCEPT ![r] = "none"]
            /\ UNCHANGED <<launches, returncode>>
       ELSE /\ proc' = [proc EXCEPT ![r] = "running"]
            /\ launches' = [launches EXCEPT ![r] = launches[r] + 1]
            /\ returncode' = [returncode EXCEPT ![r] = None]
            /\ UNCHANGED <<result, pc>>
    /\ UNCHANGED <<files, args, ref_indices, cmd, output_video_path,
                   runs, ncalls, vfVars, vizVars>>

\* lines 67-78: subprocess.run(cmd, check=True) is over, process_files returns
process_files_return(r) ==
    /\ pc[r] = "Running"
    /\ proc[r] = "exited"
    /\ result' = [result EXCEPT ![r] =
           Some(RunReturn(Val(returncode[r]), output_video_path[r]))]
    /\ pc' = [pc EXCEPT ![r] = "Idle"]
    /\ proc' = [proc EXCEPT ![r] = "none"]
    /\ UNCHANGED <<files, args, ref_indices, cmd, output_video_path, returncode,
                   launches, runs, ncalls, vfVars, vizVars>>

\* ------------------------------------------- visualize_reference_frames
\* extract_and_crop_frame writes the frame to a deterministic temporary path
FramePath(index) == <<"r", "e", "f", "e", "r", "e", "n", "c", "e", "_", "f", "r", "a", "m", "e", "_">> \o str(index) \o <<".", "j", "p", "g">>

\* the image extract_and_crop_frame decodes (crop_to_face=False: the full frame)
ExtractedImage(index) == [frame |-> index, text |-> None]

\* overlay_text(frame, index, face_detected=True): an annotated copy
overlay_text(image, index) == [image EXCEPT !.text = Some(index)]

\* cv2.imwrite(path, image), and the write of extract_and_crop_frame
WriteImage(dir, path, image) ==
    {f \in dir : f.path /= path} \cup {[path |-> path, image |-> image]}

\* a start that leaves the prior artifacts in place
visualize_start_no_delete(slots) ==
    /\ viz_pc = "Idle"
    /\ viz_log' = <<>>
    /\ viz_args' = slots
    /\ frames' = <<>>
    /\ viz_i' = 1
    /\ viz_result' = None
    /\ viz_pc' = "Loop"
    /\ UNCHANGED <<ref_frame_files, procVars, vfVars>>

\* lines 81-83: delete_existing_reference_frames(), then the locals
visualize_start(slots) ==
    /\ viz_pc = "Idle"
    /\ ref_frame_files' = {}
    /\ viz_log' = << <<"delete_existing_reference_frames", -1>> >>
    /\ viz_args' = slots
    /\ frames' = <<>>
    /\ viz_i' = 1
    /\ viz_result' = None
    /\ viz_pc' = "Loop"
    /\ UNCHANGED <<procVars, vfVars>>

\* lines 84-90: one iteration of the for loop
visualize_step ==
    /\ viz_pc = "Loop"
    /\ viz_i <= Len(viz_args)
    /\ viz_i' = viz_i + 1
    /\ IF ~IsNone(viz_args[viz_i])
       THEN LET index == Val(viz_args[viz_i])
                frame_path == FramePath(index)
                frame_with_text == overlay_text(ExtractedImage(index), index)
            IN /\ ref_frame_files' = WriteImage(
                       WriteImage(ref_frame_files, frame_path, ExtractedImage(index)),
                       frame_path, frame_with_text)
               /\ viz_log' = viz_log \o << <<"extract_and_crop_frame", index>>,
                                           <<"overlay_text", index>>,
                                           <<"imwrite", index>> >>
               /\ frames' = Append(frames, frame_path)
       ELSE UNCHANGED <<ref_frame_files, viz_log, frames>>
    /\ UNCHANGED <<viz_pc, viz_args, viz_result, procVars, vfVars>>

\* line 91
visualize_return ==
    /\ viz_pc = "Loop"
    /\ viz_i > Len(viz_args)
    /\ viz_result' = Some(frames)
    /\ viz_pc' = "Idle"
    /\ UNCHANGED <<viz_args, viz_i, frames, viz_log, ref_frame_files,
                   procVars, vfVars>>

\* --------------------------------------------------- Filename Versioner
\* a caller asks for the versioned name of the candidate
versioner_call ==
    /\ Len(vf_returned) < 2
    /\ vf_returned' = Append(vf_returned, get_versioned_filename(vf_filepath, files))
    /\ UNCHANGED <<vf_filepath, procVars, vizVars>>

Candidates ==
    { join(res_video_dir, <<"L", "i", "p", "S", "i", "c", "k", "_", "B", "l", "e", "n", "d", ".", "m", "p", "4">>), <<"a", ".", "b", "/", "o", "u", "t">>, <<".", "r", "c">> }

\* the candidates and their first k versions
VersionsUpTo(k) ==
    Candidates \cup
    { VersionedName(splitext(c)[1], n, splitext(c)[2]) :
          c \in Candidates, n \in 1..k }

VersionUniverse == VersionsUpTo(MaxVersion)

\* the caller creates the file at the path it was given
versioner_create ==
    /\ vf_returned /= <<>>
    /\ vf_returned[Len(vf_returned)] \in VersionUniverse
    /\ files' = files \cup {vf_returned[Len(vf_returned)]}
    /\ vf_returned' = <<>>
    /\ UNCHANGED <<vf_filepath, pc, proc, args, ref_indices, cmd,
                   output_video_path, returncode, result, launches, runs,
                   ncalls, vizVars>>

\* ---------------------------------------------------------------- inputs
ExitCodes == {0, 1, -9}

\* what a gr.Number slot can hold: empty, the slot's own number k, the k-th
\* number of the partial list <<3, -, 7, -, ->>, or one of 0..MaxIndex
PartialList == <<Some(3), None, Some(7), None, None>>
SlotChoices(k) == {None, Some(k), PartialList[k]} \cup {Some(i) : i \in 0..MaxIndex}

RefSlots ==
    { <<a, b, c, d, e>> : a \in SlotChoices(1), b \in SlotChoices(2),
                         c \in SlotChoices(3), d \in SlotChoices(4),
                         e \in SlotChoices(5) }

NoSlots == <<None, None, None, None, None>>

Args(source_video, driving_audio, custom_crop_radius, auto_mask, ref_index, activate_custom_frames) ==
    [source_video |-> source_video, driving_audio |-> driving_audio,
     custom_crop_radius |-> custom_crop_radius, auto_mask |-> auto_mask,
     ref_index |-> ref_index, activate_custom_frames |-> activate_custom_frames]

\* the calls of the argument-assembly specification
WideArgs ==
    { Args(v, au, cr, m, ri, act) :
          v \in {None, Some(<<"c", "l", "i", "p", ".", "m", "p", "4">>)},
          au \in {None, Some(EmptyStr), Some(<<"a", ".", "w", "a", "v">>)},
          cr \in {None, Some(0), Some(50)},
          m \in BOOLEAN, ri \in RefSlots, act \in BOOLEAN }

\* the calls of the concurrent specification
NarrowArgs ==
    { Args(v, au, None, m, NoSlots, FALSE) :
          v \in {None, Some(<<"c", "l", "i", "p", ".", "m", "p", "4">>), Some(<<"/", "t", "m", "p", "/", "u", "p", "/", "m", "y", ".", "c", "l", "i", "p", ".", "m", "p", "4">>)},
          au \in {None, Some(<<"a", ".", "w", "a", "v">>)},
          m \in BOOLEAN }

\* the slots of a visualize call: any frame of 0..MaxFrame in the first three
\* slots, the last frame or nothing in the other two
VizChoices == {None} \cup {Some(i) : i \in 0..MaxFrame}

VizSlots ==
    { <<a, b, c, d, e>> : a \in VizChoices, b \in VizChoices, c \in VizChoices,
                         d \in {None, Some(MaxFrame)}, e \in {None, Some(MaxFrame)} }

\* ------------------------------------------------------- specifications
NoArgs == Args(None, None, None, TRUE, NoSlots, FALSE)

InitProc ==
    /\ files = {}
    /\ pc = [r \in Sessions |-> "Idle"]
    /\ proc = [r \in Sessions |-> "none"]
    /\ args = [r \in Sessions |-> NoArgs]
    /\ ref_indices = [r \in Sessions |-> <<>>]
    /\ cmd = [r \in Sessions |-> <<>>]
    /\ output_video_path = [r \in Sessions |-> EmptyStr]
    /\ returncode = [r \in Sessions |-> None]
    /\ result = [r \in Sessions |-> None]
    /\ launches = [r \in Sessions |-> 0]
    /\ runs = <<>>
    /\ ncalls = 0

InitViz ==
    /\ viz_pc = "Idle"
    /\ viz_args = NoSlots
    /\ viz_i = 1
    /\ frames = <<>>
    /\ viz_log = <<>>
    /\ ref_frame_files = {}
    /\ viz_result = None

Init ==
    /\ InitProc
    /\ InitViz
    /\ vf_filepath = EmptyStr
    /\ vf_returned = <<>>

\* concurrent sessions pressing "Process Video"
Next ==
    \/ ncalls < MaxCalls /\ \E r \in Sessions, a \in NarrowArgs : process_files(r, a)
    \/ \E r \in Sessions, code \in ExitCodes : inference_exit(r, code)
    \/ \E r \in Sessions : process_files_return(r)

Spec == Init /\ [][Next]_vars

\* one call of process_files over every combination of its arguments
NextArgs ==
    ncalls = 0 /\ \E a \in WideArgs : process_files(1, a)

SpecArgs == Init /\ [][NextArgs]_vars

\* the Filename Versioner against every directory content
InitVersioner ==
    /\ InitViz
    /\ pc = [r \in Sessions |-> "Idle"]
    /\ proc = [r \in Sessions |-> "none"]
    /\ args = [r \in Sessions |-> NoArgs]
    /\ ref_indices = [r \in Sessions |-> <<>>]
    /\ cmd = [r \in Sessions |-> <<>>]
    /\ output_video_path = [r \in Sessions |-> EmptyStr]
    /\ returncode = [r \in Sessions |-> None]
    /\ result = [r \in Sessions |-> None]
    /\ launches = [r \in Sessions |-> 0]
    /\ runs = <<>>
    /\ ncalls = 0
    /\ files \in SUBSET VersionsUpTo(MaxVersion - 1)
    /\ vf_filepath \in Candidates
    /\ vf_returned = <<>>

NextVersioner ==
    \/ versioner_call
    \/ versioner_create

SpecVersioner == InitVersioner /\ [][NextVersioner]_vars

\* "Visualize Reference Frames", pressed again and again
NextVisualize ==
    \/ \E slots \in VizSlots : visualize_start(slots)
    \/ visualize_step
    \/ visualize_return

SpecVisualize == Init /\ [][NextVisualize]_vars

\* ---------------------------------------------------- reading strings back
IsDigits(s) == s /= <<>> /\ \A i \in 1..Len(s) : \E d \in 1..10 : Digits[d] = s[i]

DigitValue(c) == (CHOOSE d \in 1..10 : Digits[d] = c) - 1

\* int(s) of a string of decimal digits
RECURSIVE ParseNat(_)
ParseNat(s) ==
    IF Len(s) = 1 THEN DigitValue(s[1])
    ELSE 10 * ParseNat(SubSeq(s, 1, Len(s) - 1)) + DigitValue(s[Len(s)])

\* s.split(',')
RECURSIVE SplitComma(_)
SplitComma(s) ==
    LET commas == {i \in 1..Len(s) : s[i] = ","}
    IN IF commas = {} THEN <<s>>
       ELSE LET i == CHOOSE i \in commas : \A j \in commas : i <= j
            IN <<SubSeq(s, 1, i - 1)>> \o SplitComma(SubSeq(s, i + 1, Len(s)))

\* the value that follows flag on a command line
CmdValue(c, flag) == c[(CHOOSE i \in 1..Len(c) : c[i] = flag) + 1]

HasFlag(c, flag) == \E i \in 1..Len(c) : c[i] = flag

\* the call of session r reached subprocess.run
Launched(r) == launches[r] = 1

\* session r's call has returned a pair
Returned(r) == ~IsNone(result[r])

status_text(r) == Val(result[r])[1]
output_video(r) == Val(result[r])[2]

AllSlotsFilled(slots) == \A k \in 1..5 : ~IsNone(slots[k])

\* ------------------------------------------------------------------ claims

\* C1: whenever process_files is called with driving_audio absent (None or
\* empty), the pair it returns has an error message in the status position
\* and an empty output path, and the inference process is not launched.
C1_MissingAudioIsAnErrorStatus ==
    \A r \in Sessions :
        (AudioMissing(args[r].driving_audio) /\ Returned(r)) =>
            /\ status_text(r) /= EmptyStr
            /\ output_video(r) = EmptyStr
            /\ launches[r] = 0
            /\ proc[r] = "none"

\* the five slots <<1, 2, 3, 4, 5>> of the worked example
ExampleSlots == <<Some(1), Some(2), Some(3), Some(4), Some(5)>>

\* the numbers read back from the --custom_reference_frames value
PassedIndices(r) ==
    LET parts == SplitComma(CmdValue(cmd[r], <<"-", "-", "c", "u", "s", "t", "o", "m", "_", "r", "e", "f", "e", "r", "e", "n", "c", "e", "_", "f", "r", "a", "m", "e", "s">>))
    IN [k \in 1..Len(parts) |-> ParseNat(parts[k])]

\* C5: with five non-empty indices, every index is passed incremented by 5
\* when custom_crop_radius is None or zero, and passed as it is when a custom
\* crop radius is supplied; <<1,2,3,4,5>> gives "6,7,8,9,10" resp. "1,2,3,4,5".
C5_OffsetOnlyWithoutCropRadius ==
    \A r \in Sessions :
        (Launched(r) /\ AllSlotsFilled(args[r].ref_index)) =>
            LET slots == args[r].ref_index
                crop == args[r].custom_crop_radius
                value == CmdValue(cmd[r], <<"-", "-", "c", "u", "s", "t", "o", "m", "_", "r", "e", "f", "e", "r", "e", "n", "c", "e", "_", "f", "r", "a", "m", "e", "s">>)
                offset == IF IsNone(crop) \/ crop = Some(0) THEN 5 ELSE 0
            IN /\ \A k \in 1..Len(SplitComma(value)) : IsDigits(SplitComma(value)[k])
               /\ PassedIndices(r) = [k \in 1..5 |-> Val(slots[k]) + offset]
               /\ ref_indices[r] = [k \in 1..5 |-> Val(slots[k]) + offset]
               /\ (slots = ExampleSlots /\ offset = 5) => value = <<"6", ",", "7", ",", "8", ",", "9", ",", "1", "0">>
               /\ (slots = ExampleSlots /\ crop = Some(50)) => value = <<"1", ",", "2", ",", "3", ",", "4", ",", "5">>

C5_Witness ==
    /\ Launched(1)
    /\ args[1].ref_index = ExampleSlots
    /\ args[1].custom_crop_radius = Some(0)
    /\ CmdValue(cmd[1], <<"-", "-", "c", "u", "s", "t", "o", "m", "_", "r", "e", "f", "e", "r", "e", "n", "c", "e", "_", "f", "r", "a", "m", "e", "s">>) = <<"6", ",", "7", ",", "8", ",", "9", ",", "1", "0">>

\* the slots that hold an index, in slot order
FilledSlots(slots) == {k \in 1..5 : ~IsNone(slots[k])}

\* C6: the string passed as --custom_reference_frames lists the collected
\* indices, comma-separated and in slot order, exactly when all five slots are
\* filled; with any slot empty the string passed is empty.
C6_PartialListIsNeverPassed ==
    \A r \in Sessions :
        Launched(r) =>
            LET slots == args[r].ref_index
                value == CmdValue(cmd[r], <<"-", "-", "c", "u", "s", "t", "o", "m", "_", "r", "e", "f", "e", "r", "e", "n", "c", "e", "_", "f", "r", "a", "m", "e", "s">>)
            IN /\ Len(ref_indices[r]) = Cardinality(FilledSlots(slots))
               /\ AllSlotsFilled(slots) =>
                      /\ value /= EmptyStr
                      /\ PassedIndices(r) = ref_indices[r]
                      /\ \E d \in {0, 5} : \A k \in 1..5 :
                             PassedIndices(r)[k] = Val(slots[k]) + d
               /\ ~AllSlotsFilled(slots) => value = EmptyStr

C6_Witness ==
    /\ Launched(1)
    /\ args[1].ref_index = PartialList
    /\ args[1].custom_crop_radius = Some(50)
    /\ ref_indices[1] = <<3, 7>>
    /\ CmdValue(cmd[1], <<"-", "-", "c", "u", "s", "t", "o", "m", "_", "r", "e", "f", "e", "r", "e", "n", "c", "e", "_", "f", "r", "a", "m", "e", "s">>) = EmptyStr

\* the +5 is visible on the collected indices of session r
OffsetApplied(r) ==
    \A k \in 1..Len(ref_indices[r]) :
        ref_indices[r][k] = CollectIndices(args[r].ref_index)[k] + 5

\* C10: for every launched call with indices supplied, the +5 offset is
\* applied exactly when no --custom_crop_radius argument is on the command line.
C10_OffsetExactlyWithoutCropArgument ==
    \A r \in Sessions :
        (Launched(r) /\ FilledSlots(args[r].ref_index) /= {}) =>
            (OffsetApplied(r) <=> ~HasFlag(cmd[r], <<"-", "-", "c", "u", "s", "t", "o", "m", "_", "c", "r", "o", "p", "_", "r", "a", "d", "i", "u", "s">>))

\* C2: a call that launched the inference process returns the empty status
\* with the versioned output path computed before the launch when the exit code
\* is 0, and a non-empty failure message with an empty path when the exit code
\* is not 0; it returns nothing else.
C2_ReturnFollowsExitCode ==
    \A r \in Sessions :
        (Launched(r) /\ Returned(r)) =>
            /\ ~IsNone(returncode[r])
            /\ Val(returncode[r]) = 0 =>
                   /\ status_text(r) = EmptyStr
                   /\ output_video(r) = output_video_path[r]
                   /\ output_video(r) /= EmptyStr
                   /\ \E i \in 1..Len(runs) : runs[i] = output_video(r)
            /\ Val(returncode[r]) /= 0 =>
                   /\ status_text(r) /= EmptyStr
                   /\ output_video(r) = EmptyStr

C2_Witness ==
    \E r1, r2 \in Sessions :
        /\ Launched(r1) /\ Returned(r1) /\ returncode[r1] = Some(0)
        /\ Launched(r2) /\ Returned(r2) /\ returncode[r2] = Some(1)

\* C3: runs that target the same output base name never collide: no two
\* runs are assigned the same output video path, and no run is about to write
\* a path that a prior run's output occupies.
C3_RunsNeverCollide ==
    /\ \A i, j \in 1..Len(runs) : i /= j => runs[i] /= runs[j]
    /\ \A r \in Sessions : proc[r] = "running" => output_video_path[r] \notin files

\* the output name the specification gives for a source video and auto-mask
ExpectedOutputName(source_video, auto_mask) ==
    IF auto_mask THEN <<"L", "i", "p", "S", "i", "c", "k", "_", "B", "l", "e", "n", "d", ".", "m", "p", "4">>
    ELSE IF source_video = <<"c", "l", "i", "p", ".", "m", "p", "4">> THEN <<"c", "l", "i", "p", "_", "l", "i", "p", "s", "i", "c", "k", ".", "m", "p", "4">>
    ELSE IF source_video = <<"/", "t", "m", "p", "/", "u", "p", "/", "m", "y", ".", "c", "l", "i", "p", ".", "m", "p", "4">> THEN <<"m", "y", ".", "c", "l", "i", "p", "_", "l", "i", "p", "s", "i", "c", "k", ".", "m", "p", "4">>
    ELSE EmptyStr

\* name with its ".mp4" replaced by "(n).mp4"
NthVersion(name, n) ==
    SubSeq(name, 1, Len(name) - 4) \o <<"(">> \o str(n) \o <<")">> \o <<".", "m", "p", "4">>

\* C7: the unversioned output name is LipSick_Blend.mp4 with auto-mask and the
\* source video's base name followed by _lipsick.mp4 without it; the path
\* returned on success is that name, or a numbered version of it, in the
\* results directory.
C7_OutputNameFollowsAutoMask ==
    \A r \in Sessions :
        (Launched(r) /\ Returned(r) /\ returncode[r] = Some(0)) =>
            LET name == ExpectedOutputName(Val(args[r].source_video), args[r].auto_mask)
                dir == <<".", "/", "a", "s", "s", "e", "r", "t", "s", "/", "i", "n", "f", "e", "r", "e", "n", "c", "e", "_", "r", "e", "s", "u", "l", "t", "/">>
            IN /\ name /= EmptyStr
               /\ \/ output_video(r) = dir \o name
                  \/ \E n \in 1..MaxCalls : output_video(r) = dir \o NthVersion(name, n)

C7_Witness ==
    \E r1, r2 \in Sessions :
        /\ Returned(r1) /\ args[r1].source_video = Some(<<"c", "l", "i", "p", ".", "m", "p", "4">>)
        /\ ~args[r1].auto_mask
        /\ output_video(r1) = <<".", "/", "a", "s", "s", "e", "r", "t", "s", "/", "i", "n", "f", "e", "r", "e", "n", "c", "e", "_", "r", "e", "s", "u", "l", "t", "/", "c", "l", "i", "p", "_", "l", "i", "p", "s", "i", "c", "k", ".", "m", "p", "4">>
        /\ Returned(r2) /\ args[r2].auto_mask
        /\ output_video(r2) = <<".", "/", "a", "s", "s", "e", "r", "t", "s", "/", "i", "n", "f", "e", "r", "e", "n", "c", "e", "_", "r", "e", "s", "u", "l", "t", "/", "L", "i", "p", "S", "i", "c", "k", "_", "B", "l", "e", "n", "d", ".", "m", "p", "4">>

\* what C9 requires of every state
C9_State ==
    \A r \in Sessions :
        /\ launches[r] <= 1
        /\ pc[r] = "Running" =>
               /\ launches[r] = 1
               /\ ~AudioMissing(args[r].driving_audio)
               /\ proc[r] \in {"running", "exited"}
               /\ IsNone(result[r])
        /\ pc[r] = "Idle" => proc[r] = "none"

\* what C9 requires of every step
C9_Step ==
    \A r \in Sessions :
        /\ (pc[r] = "Idle" /\ pc'[r] = "Running") =>
               /\ proc'[r] = "running"
               /\ ncalls' = ncalls + 1
               /\ Len(runs') = Len(runs) + 1
        /\ pc[r] = "Running" =>
               /\ Len(runs') = Len(runs) \/ pc'[r] = "Running"
               /\ launches'[r] = launches[r]
               /\ proc'[r] /= "running" \/ proc[r] = "running"
        /\ (pc[r] = "Running" /\ pc'[r] = "Idle") =>
               /\ proc[r] = "exited"
               /\ Returned(r)'
        /\ proc[r] = "exited" =>
               \/ pc'[r] = "Idle" /\ Returned(r)'
               \/ pc'[r] = pc[r] /\ proc'[r] = proc[r] /\ result'[r] = result[r]

\* C9: a request is Running only inside a validated process_files call, the
\* inference process is launched once per call and never relaunched, the call
\* returns only after the process has exited, and once the process has exited
\* the only thing the request does is return to Idle with its result.
C9_IdleRunningIdle ==
    /\ [](C9_State /\ \A r \in Sessions : proc[r] = "exited" => ENABLED process_files_return(r))
    /\ [][C9_Step]_vars

C9_Witness ==
    \E r \in Sessions :
        /\ pc[r] = "Idle" /\ Launched(r) /\ Returned(r)
        /\ returncode[r] = Some(1)
        /\ ncalls = 1

\* v reads as base, "(", the decimal digits of n, ")", ext
IsVersion(v, base, n, ext) ==
    LET open == Len(base) + 1
        close == Len(v) - Len(ext)
    IN /\ close > open + 1
       /\ SubSeq(v, 1, Len(base)) = base
       /\ v[open] = "("
       /\ v[close] = ")"
       /\ SubSeq(v, close + 1, Len(v)) = ext
       /\ IsDigits(SubSeq(v, open + 1, close - 1))
       /\ v[open + 1] /= "0"
       /\ ParseNat(SubSeq(v, open + 1, close - 1)) = n

\* C4: get_versioned_filename returns the candidate when it does not exist,
\* and otherwise base(n)ext for the smallest n >= 1 whose path does not exist;
\* calls against an unchanged directory return the same path.
C4_FirstUnusedVersion ==
    LET base == splitext(vf_filepath)[1]
        ext == splitext(vf_filepath)[2]
    IN /\ base \o ext = vf_filepath
       /\ \A i \in 1..Len(vf_returned) :
              LET v == vf_returned[i]
              IN /\ v \notin files
                 /\ vf_filepath \notin files => v = vf_filepath
                 /\ vf_filepath \in files =>
                        \E n \in 1..(Cardinality(files) + 1) :
                            /\ IsVersion(v, base, n, ext)
                            /\ \A m \in 1..(n - 1) : \E w \in files : IsVersion(w, base, m, ext)
       /\ \A i, j \in 1..Len(vf_returned) : vf_returned[i] = vf_returned[j]

C4_Witness ==
    /\ vf_filepath = <<".", "/", "a", "s", "s", "e", "r", "t", "s", "/", "i", "n", "f", "e", "r", "e", "n", "c", "e", "_", "r", "e", "s", "u", "l", "t", "/", "L", "i", "p", "S", "i", "c", "k", "_", "B", "l", "e", "n", "d", ".", "m", "p", "4">>
    /\ vf_filepath \in files
    /\ <<".", "/", "a", "s", "s", "e", "r", "t", "s", "/", "i", "n", "f", "e", "r", "e", "n", "c", "e", "_", "r", "e", "s", "u", "l", "t", "/", "L", "i", "p", "S", "i", "c", "k", "_", "B", "l", "e", "n", "d", "(", "1", ")", ".", "m", "p", "4">> \in files
    /\ Len(vf_returned) = 2
    /\ vf_returned[2] = <<".", "/", "a", "s", "s", "e", "r", "t", "s", "/", "i", "n", "f", "e", "r", "e", "n", "c", "e", "_", "r", "e", "s", "u", "l", "t", "/", "L", "i", "p", "S", "i", "c", "k", "_", "B", "l", "e", "n", "d", "(", "2", ")", ".", "m", "p", "4">>

\* the k-th filled slot of slots
NthFilled(slots, k) ==
    CHOOSE s \in 1..Len(slots) :
        /\ ~IsNone(slots[s])
        /\ Cardinality({t \in 1..s : ~IsNone(slots[t])}) = k

\* C8: visualize_reference_frames deletes the prior reference-frame artifacts
\* before it extracts any frame, and returns one annotated frame path per
\* non-absent index, in slot order; <<0, -, 2, -, ->> gives the frames of 0 and 2.
C8_DeleteThenOneFramePerIndex ==
    /\ viz_log /= <<>> =>
           /\ viz_log[1][1] = "delete_existing_reference_frames"
           /\ \A i \in 2..Len(viz_log) : viz_log[i][1] /= "delete_existing_reference_frames"
    /\ \A f \in ref_frame_files : \E i \in 1..Len(frames) : frames[i] = f.path
    /\ ~IsNone(viz_result) =>
           LET paths == Val(viz_result)
               filled == {s \in 1..5 : ~IsNone(viz_args[s])}
           IN /\ Len(paths) = Cardinality(filled)
              /\ \A k \in 1..Len(paths) :
                     LET index == Val(viz_args[NthFilled(viz_args, k)])
                     IN /\ paths[k] = <<"r", "e", "f", "e", "r", "e", "n", "c", "e", "_", "f", "r", "a", "m", "e", "_">> \o str(index) \o <<".", "j", "p", "g">>
                        /\ \E f \in ref_frame_files :
                               /\ f.path = paths[k]
                               /\ f.image = [frame |-> index, text |-> Some(index)]
              /\ viz_args = <<Some(0), None, Some(2), None, None>> =>
                     paths = <<<<"r", "e", "f", "e", "r", "e", "n", "c", "e", "_", "f", "r", "a", "m", "e", "_", "0", ".", "j", "p", "g">>, <<"r", "e", "f", "e", "r", "e", "n", "c", "e", "_", "f", "r", "a", "m", "e", "_", "2", ".", "j", "p", "g">>>>

C8_Witness ==
    /\ viz_args = <<Some(0), None, Some(2), None, None>>
    /\ viz_result = Some(<<<<"r", "e", "f", "e", "r", "e", "n", "c", "e", "_", "f", "r", "a", "m", "e", "_", "0", ".", "j", "p", "g">>, <<"r", "e", "f", "e", "r", "e", "n", "c", "e", "_", "f", "r", "a", "m", "e", "_", "2", ".", "j", "p", "g">>>>)
    /\ Len(viz_log) = 7

=============================================================================
